---- MODULE Spec2Model ----
(***************************************************************************)
(* Model of the floor-plan analyzer: the box-to-line heuristic and the     *)
(* wall extractor (src/processing/wall_extractor.py), the inference client *)
(* (src/detection/roboflow_client.py), the result schema                   *)
(* (src/models/schemas.py) and the batch loop (src/main.py).               *)
(*                                                                         *)
(* Numbers.  A Python float is a record [k, v]: k = "fin" for a finite     *)
(* value whose numerator v counts quarters of a unit (v = 4 is 1.0), and   *)
(* k = "nan" / "pinf" / "ninf" for the three non-finite floats.  Inputs    *)
(* are multiples of one half, so halving a width is exact, as it is for    *)
(* the corresponding binary floats.                                        *)
(***************************************************************************)
EXTENDS Integers, Sequences, FiniteSets, TLC

VARIABLES
  \* bbox_to_wall_line applied to one box
  bx, by, bw, bh, bout,
  \* extract_walls: arguments, loop position, locals, outcome
  preds, thr, idx, walls, wall_id, epc,
  \* infer_image: what the file system and the server answer, and the outcome
  ifile, inet, istatus, ibody, iout,
  \* main / process_single_image
  nfiles, cur, pc, started, loadFailed, inferFailed, visFailed, inferCalls,
  jsonTried, jsonOut, pngOut, crashedAt, image, detection, mwalls, result

boxVars     == <<bx, by, bw, bh, bout>>
extractVars == <<preds, thr, idx, walls, wall_id, epc>>
inferVars   == <<ifile, inet, istatus, ibody, iout>>
mainVars    == <<nfiles, cur, pc, started, loadFailed, inferFailed, visFailed,
                 inferCalls, jsonTried, jsonOut, pngOut, crashedAt, image,
                 detection, mwalls, result>>
vars        == <<boxVars, extractVars, inferVars, mainVars>>

\* ------------------------------------------------------------------ bounds
MaxCoord == 2     \* box centres range over -MaxCoord .. MaxCoord halves
MaxDim   == 3     \* box widths and heights range over -1 .. MaxDim halves
MaxPreds == 3     \* longest predictions list given to extract_walls
MaxFiles == 2     \* most files File Discovery returns to main

\* ------------------------------------------------------------------ floats
Fin(n) == [k |-> "fin", v |-> n]
NaN    == [k |-> "nan", v |-> 0]
PInf   == [k |-> "pinf", v |-> 0]
NInf   == [k |-> "ninf", v |-> 0]

FNeg(a) ==
  CASE a.k = "fin"  -> Fin(0 - a.v)
    [] a.k = "pinf" -> NInf
    [] a.k = "ninf" -> PInf
    [] OTHER        -> NaN

\* a + b in IEEE arithmetic
FAdd(a, b) ==
  CASE a.k = "nan" \/ b.k = "nan"      -> NaN
    [] a.k = "fin" /\ b.k = "fin"      -> Fin(a.v + b.v)
    [] a.k = "fin"                     -> b
    [] b.k = "fin"                     -> a
    [] a.k = b.k                       -> a
    [] OTHER                           -> NaN      \* inf - inf

FSub(a, b) == FAdd(a, FNeg(b))

\* a / 2 (exact: every finite input is a multiple of one half)
FHalf(a) == IF a.k = "fin" THEN Fin(a.v \div 2) ELSE a

\* 2 * a
FTwice(a) == IF a.k = "fin" THEN Fin(2 * a.v) ELSE a

\* a < b; every comparison with NaN is false
FLt(a, b) ==
  CASE a.k = "nan" \/ b.k = "nan"  -> FALSE
    [] a.k = "fin" /\ b.k = "fin"  -> a.v < b.v
    [] a.k = "ninf"                -> b.k # "ninf"
    [] b.k = "pinf"                -> a.k # "pinf"
    [] OTHER                       -> FALSE

\* a >= b
FGe(a, b) ==
  CASE a.k = "nan" \/ b.k = "nan"  -> FALSE
    [] OTHER                       -> ~FLt(a, b)

\* int() rounding down instead of toward zero
TruncQuot_Floor(n, d) == n \div d

\* Python int(f): truncation toward zero; ValueError on NaN, OverflowError
\* on an infinity.
TruncQuot(n, d) == IF n >= 0 THEN n \div d ELSE 0 - ((0 - n) \div d)

PyInt(a) ==
  CASE a.k = "fin" -> [exc |-> "none", v |-> TruncQuot(a.v, 4)]
    [] a.k = "nan" -> [exc |-> "ValueError", v |-> 0]
    [] OTHER       -> [exc |-> "OverflowError", v |-> 0]

\* ------------------------------------------------------- bbox_to_wall_line
\* The result is [exc, points]: exc = "none" and the point list, or the
\* exception the first failing int() raises.
BboxShape(x1, y1, x2, y2, width, height) ==
  IF FGe(width, FTwice(height))
    THEN LET y_mid == (y1 + y2) \div 2 IN << <<x1, y_mid>>, <<x2, y_mid>> >>
  ELSE IF FGe(height, FTwice(width))
    THEN LET x_mid == (x1 + x2) \div 2 IN << <<x_mid, y1>>, <<x_mid, y2>> >>
  ELSE << <<x1, y1>>, <<x2, y1>>, <<x2, y2>>, <<x1, y2>> >>

bbox_to_wall_line(x, y, width, height) ==
  LET x1 == PyInt(FSub(x, FHalf(width)))
      y1 == PyInt(FSub(y, FHalf(height)))
      x2 == PyInt(FAdd(x, FHalf(width)))
      y2 == PyInt(FAdd(y, FHalf(height)))
  IN  CASE x1.exc # "none" -> [exc |-> x1.exc, points |-> << >>]
        [] y1.exc # "none" -> [exc |-> y1.exc, points |-> << >>]
        [] x2.exc # "none" -> [exc |-> x2.exc, points |-> << >>]
        [] y2.exc # "none" -> [exc |-> y2.exc, points |-> << >>]
        [] OTHER -> [exc |-> "none",
                     points |-> BboxShape(x1.v, y1.v, x2.v, y2.v, width, height)]

\* Centres and sizes the box specification draws from (halves of a unit).
BoxCentres == {Fin(2 * n) : n \in (0 - MaxCoord) .. MaxCoord}
BoxSizes   == {Fin(2 * n) : n \in (0 - 1) .. MaxDim}
NoBox      == [exc |-> "unset", points |-> << >>]

\* ------------------------------------------------------------ predictions
\* A JSON field of a prediction: absent from the mapping, null, a string
\* that is no number, or a number.
Absent   == [t |-> "absent", f |-> Fin(0)]
Null     == [t |-> "null", f |-> Fin(0)]
Text     == [t |-> "text", f |-> Fin(0)]
Num(a)   == [t |-> "num", f |-> a]

\* float(pred.get(key, default)): the default replaces an absent key only;
\* float(None) raises TypeError and float("n/a") raises ValueError.
PyFloat(field, default) ==
  CASE field.t = "absent" -> [exc |-> "none", f |-> default]
    [] field.t = "num"    -> [exc |-> "none", f |-> field.f]
    [] field.t = "null"   -> [exc |-> "TypeError", f |-> Fin(0)]
    [] OTHER              -> [exc |-> "ValueError", f |-> Fin(0)]

\* Class labels are sequences of characters.
UpperAlpha == <<"A","B","C","D","E","F","G","H","I","J","K","L","M",
                "N","O","P","Q","R","S","T","U","V","W","X","Y","Z">>
LowerAlpha == <<"a","b","c","d","e","f","g","h","i","j","k","l","m",
                "n","o","p","q","r","s","t","u","v","w","x","y","z">>

LowerChar(c) ==
  IF \E i \in 1..Len(UpperAlpha) : UpperAlpha[i] = c
    THEN LowerAlpha[CHOOSE i \in 1..Len(UpperAlpha) : UpperAlpha[i] = c]
    ELSE c

\* str.lower()
Lower(s) == [i \in 1..Len(s) |-> LowerChar(s[i])]

\* needle in s (substring test)
Contains(s, needle) ==
  \E i \in 1..(Len(s) - Len(needle) + 1) :
      SubSeq(s, i, i + Len(needle) - 1) = needle

NoLabel    == [t |-> "absent", s |-> << >>]
NullLabel  == [t |-> "null", s |-> << >>]
Label(str) == [t |-> "text", s |-> str]

\* str(pred.get('class', '')).lower(): str(None) is "None"
ClassName(label) ==
  CASE label.t = "absent" -> << >>
    [] label.t = "null"   -> Lower(<<"N","o","n","e">>)
    [] OTHER              -> Lower(label.s)

\* One entry of the predictions list; mapping = FALSE is an entry that is
\* not a dict (a string, a number, null), on which .get does not exist.
Prediction(label, confidence, x, y, width, height) ==
  [mapping |-> TRUE, class |-> label, confidence |-> confidence,
   x |-> x, y |-> y, width |-> width, height |-> height]

NotAMapping ==
  [mapping |-> FALSE, class |-> NoLabel, confidence |-> Absent,
   x |-> Absent, y |-> Absent, width |-> Absent, height |-> Absent]

\* ------------------------------------------------------------ extract_walls
\* The body of the for loop for one prediction.  act is "emit" (a wall is
\* appended), "skip" (continue), "warn" (TypeError/ValueError caught, logged,
\* continue) or "raise" (an exception the except clause does not catch).
Outcome(act, exc, points, confidence) ==
  [act |-> act, exc |-> exc, points |-> points, confidence |-> confidence]

Catch(exc) ==
  IF exc \in {"TypeError", "ValueError"}
    THEN Outcome("warn", exc, << >>, Fin(0))
    ELSE Outcome("raise", exc, << >>, Fin(0))

\* a default confidence other than 0.0
DefaultConfidence_Half == Fin(2)

\* pred.get('confidence', 0.0): the value used when the key is absent
DefaultConfidence == Fin(0)

\* the threshold test written with <= (a confidence at the threshold dropped)
BelowThreshold_Inclusive(confidence, confidence_threshold) ==
  FLt(confidence, confidence_threshold) \/ confidence = confidence_threshold

\* if confidence < confidence_threshold: continue
BelowThreshold(confidence, confidence_threshold) ==
  FLt(confidence, confidence_threshold)

ProcessPrediction(pred, confidence_threshold) ==
  IF ~pred.mapping THEN Catch("AttributeError")
  ELSE
    LET confidence == PyFloat(pred.confidence, DefaultConfidence)
        class_name == ClassName(pred.class)
        x      == PyFloat(pred.x, Fin(0))
        y      == PyFloat(pred.y, Fin(0))
        width  == PyFloat(pred.width, Fin(0))
        height == PyFloat(pred.height, Fin(0))
        line   == bbox_to_wall_line(x.f, y.f, width.f, height.f)
    IN  CASE confidence.exc # "none" -> Catch(confidence.exc)
          [] BelowThreshold(confidence.f, confidence_threshold) ->
               Outcome("skip", "none", << >>, Fin(0))
          [] ~Contains(class_name, <<"w","a","l","l">>) ->
               Outcome("skip", "none", << >>, Fin(0))
          [] x.exc # "none"      -> Catch(x.exc)
          [] y.exc # "none"      -> Catch(y.exc)
          [] width.exc # "none"  -> Catch(width.exc)
          [] height.exc # "none" -> Catch(height.exc)
          [] line.exc # "none"   -> Catch(line.exc)
          [] OTHER -> Outcome("emit", "none", line.points, confidence.f)

\* str(n) for n >= 0, as a sequence of characters
Digits == <<"0","1","2","3","4","5","6","7","8","9">>
RECURSIVE PyStr(_)
PyStr(n) ==
  IF n < 10 THEN <<Digits[n + 1]>>
  ELSE PyStr(n \div 10) \o <<Digits[(n % 10) + 1]>>

\* f"w{wall_id}"
WallId(n) == <<"w">> \o PyStr(n)

Wall(n, points, confidence) ==
  [id |-> WallId(n), points |-> points, confidence |-> confidence]

\* the counter advanced for every prediction, emitted or not
NextWallId_Always(n, o) == n + 1

\* wall_id after the loop body has run with outcome o
NextWallId(n, o) == IF o.act = "emit" THEN n + 1 ELSE n

\* The whole call: [exc, walls]; on an uncaught exception nothing is
\* returned.
RECURSIVE ExtractFrom(_, _, _, _, _)
ExtractFrom(predictions, confidence_threshold, i, ws, n) ==
  IF i > Len(predictions) THEN [exc |-> "none", walls |-> ws]
  ELSE
    LET o == ProcessPrediction(predictions[i], confidence_threshold)
    IN  IF o.act = "raise" THEN [exc |-> o.exc, walls |-> << >>]
        ELSE ExtractFrom(predictions, confidence_threshold, i + 1,
               IF o.act = "emit"
                 THEN Append(ws, Wall(n, o.points, o.confidence))
                 ELSE ws,
               NextWallId(n, o))

extract_walls(predictions, confidence_threshold) ==
  ExtractFrom(predictions, confidence_threshold, 1, << >>, 1)

\* ------------------------------------------------- idle parts of the state
\* Each specification below exercises one part of the program and leaves
\* the variables of the other parts at these values.
IdleBox ==
  /\ bx = Fin(0) /\ by = Fin(0) /\ bw = Fin(0) /\ bh = Fin(0)
  /\ bout = NoBox

IdleExtract ==
  /\ preds = << >> /\ thr = Fin(0) /\ idx = 1 /\ walls = << >>
  /\ wall_id = 1 /\ epc = "idle"

\* ------------------------------------------------------------- infer_image
\* The parsed body of a response.  json is "invalid" (response.json() raises),
\* "object", "array", "string" or "number"; hasKey says whether the text
\* "predictions" is a key of the object / an element of the array / a
\* substring of the string; predictions is the value under that key of an
\* object: a list of entries, or null.
Body(json, hasKey, predictions) ==
  [json |-> json, hasKey |-> hasKey, predictions |-> predictions]

PredList(items) == [t |-> "list", items |-> items]
PredNull        == [t |-> "null", items |-> << >>]
NoBody          == Body("invalid", FALSE, PredNull)

Raised(exc)    == [exc |-> exc, body |-> NoBody]
Returned(body) == [exc |-> "none", body |-> body]
NoResult       == [exc |-> "unset", body |-> NoBody]

\* response.raise_for_status() of the requests library: HTTPError for a
\* status of 400..599, nothing for any other status.
RaiseForStatus(status) == 400 <= status /\ status < 600

\* "predictions" not in result; on a number the test itself raises TypeError
MissingPredictions(body) ==
  CASE body.json = "number" -> [exc |-> "TypeError", missing |-> FALSE]
    [] OTHER                -> [exc |-> "none", missing |-> ~body.hasKey]

\* fileOk: open(image_path, 'rb') succeeds; netOk: requests.post returns a
\* response (no timeout, connection or TLS error).  Every except clause
\* logs and re-raises.
infer_image(fileOk, netOk, status, body) ==
  LET check == MissingPredictions(body)
  IN  CASE ~fileOk                -> Raised("IOError")
        [] ~netOk                 -> Raised("RequestException")
        [] RaiseForStatus(status) -> Raised("HTTPError")
        [] body.json = "invalid"  -> Raised("JSONDecodeError")
        [] check.exc # "none"     -> Raised(check.exc)
        [] check.missing          -> Raised("ValueError")
        [] OTHER                  -> Returned(body)

IdleInfer ==
  /\ ifile = TRUE /\ inet = TRUE /\ istatus = 200 /\ ibody = NoBody
  /\ iout = NoResult

\* --------------------------------------------- bbox_to_wall_line, applied
InitBox ==
  /\ bx \in BoxCentres \cup {NaN, PInf}
  /\ by \in BoxCentres \cup {NaN, PInf}
  /\ bw \in BoxSizes \cup {PInf}
  /\ bh \in BoxSizes \cup {PInf}
  /\ bout = NoBox

CallBbox ==
  /\ bout = NoBox
  /\ bout' = bbox_to_wall_line(bx, by, bw, bh)
  /\ UNCHANGED <<bx, by, bw, bh>>

\* ------------------------------------------------- extract_walls, stepwise
WallLabel      == Label(<<"w","a","l","l">>)
UpperWallLabel == Label(<<"W","A","L","L","-","i","n">>)
DoorLabel      == Label(<<"d","o","o","r">>)

\* The predictions the extractor specification draws its lists from: valid
\* walls of each shape, a non-wall, and each way an entry can be malformed.
ValidWall  == Prediction(WallLabel, Num(Fin(2)), Num(Fin(8)), Num(Fin(8)), Num(Fin(16)), Num(Fin(4)))
TallWall   == Prediction(UpperWallLabel, Num(Fin(1)), Num(Fin(8)), Num(Fin(8)), Num(Fin(2)), Num(Fin(6)))
Door       == Prediction(DoorLabel, Num(Fin(3)), Num(Fin(8)), Num(Fin(8)), Num(Fin(16)), Num(Fin(4)))
WeakWall   == Prediction(WallLabel, Num(Fin(0)), Num(Fin(4)), Num(Fin(4)), Num(Fin(6)), Num(Fin(6)))
BareWall   == Prediction(WallLabel, Absent, Absent, Absent, Absent, Absent)
TextConf   == Prediction(WallLabel, Text, Num(Fin(8)), Num(Fin(8)), Num(Fin(16)), Num(Fin(4)))
NullConf   == Prediction(WallLabel, Null, Num(Fin(8)), Num(Fin(8)), Num(Fin(16)), Num(Fin(4)))
TextX      == Prediction(WallLabel, Num(Fin(2)), Text, Num(Fin(8)), Num(Fin(16)), Num(Fin(4)))
InfWall    == Prediction(WallLabel, Num(Fin(2)), Num(PInf), Num(Fin(8)), Num(Fin(16)), Num(Fin(4)))
NaNConf    == Prediction(WallLabel, Num(NaN), Num(Fin(8)), Num(Fin(8)), Num(Fin(16)), Num(Fin(4)))

Unlabelled   == Prediction(NoLabel, Num(Fin(2)), Num(Fin(8)), Num(Fin(8)), Num(Fin(16)), Num(Fin(4)))
NullLabelled == Prediction(NullLabel, Num(Fin(2)), Num(Fin(8)), Num(Fin(8)), Num(Fin(16)), Num(Fin(4)))

SamplePredictions ==
  { ValidWall, TallWall, Door, WeakWall, BareWall, TextConf, NullConf, TextX,
    InfWall, NaNConf, NotAMapping }

Thresholds == {Fin(0), Fin(1)}

ListsUpTo(S, n) == UNION {[1..k -> S] : k \in 0..n}

InitExtract ==
  /\ preds \in ListsUpTo(SamplePredictions, MaxPreds)
  /\ thr \in Thresholds
  /\ idx = 1
  /\ walls = << >>
  /\ wall_id = 1
  /\ epc = "loop"

\* one iteration of "for pred in predictions"
ExtractIterate ==
  /\ epc = "loop"
  /\ idx <= Len(preds)
  /\ LET o == ProcessPrediction(preds[idx], thr)
     IN  /\ walls' = IF o.act = "emit"
                       THEN Append(walls, Wall(wall_id, o.points, o.confidence))
                       ELSE walls
         /\ wall_id' = NextWallId(wall_id, o)
         /\ epc' = IF o.act = "raise" THEN "raised" ELSE "loop"
         /\ idx' = IF o.act = "raise" THEN idx ELSE idx + 1
  /\ UNCHANGED <<preds, thr>>

\* the loop is exhausted: return walls
ExtractReturn ==
  /\ epc = "loop"
  /\ idx > Len(preds)
  /\ epc' = "returned"
  /\ UNCHANGED <<preds, thr, idx, walls, wall_id>>

\* --------------------------------------------------- infer_image, applied
\* Bodies a server can send: no JSON, each JSON shape with and without the
\* text "predictions", and objects whose predictions are a list or null.
SampleBodies ==
  { NoBody,
    Body("object", FALSE, PredNull),
    Body("object", TRUE, PredNull),
    Body("object", TRUE, PredList(<< >>)),
    Body("array", FALSE, PredNull),
    Body("array", TRUE, PredNull),
    Body("string", TRUE, PredNull),
    Body("number", FALSE, PredNull) }

StatusCodes == 100..599

InitInfer ==
  /\ ifile \in BOOLEAN
  /\ inet \in BOOLEAN
  /\ istatus \in StatusCodes
  /\ ibody \in SampleBodies
  /\ iout = NoResult

CallInfer ==
  /\ iout = NoResult
  /\ iout' = infer_image(ifile, inet, istatus, ibody)
  /\ UNCHANGED <<ifile, inet, istatus, ibody>>

\* ----------------------------------------------------- schemas and settings
\* settings.MODEL_ID and settings.CONFIDENCE_THRESHOLD (both may be set from
\* the environment; the threshold is given in the units of the sample
\* confidences).
MODEL_ID             == "cubicasa5k-2-qpmsa/6"
CONFIDENCE_THRESHOLD == Fin(1)

\* The fields class Metadata declares.
MetadataFields == {"source", "shape"}

\* Metadata(**meta): pydantic keeps the declared fields of the mapping it is
\* given and ignores every other key (BaseModel's default, extra = "ignore").
Metadata(meta) == [k \in (DOMAIN meta) \cap MetadataFields |-> meta[k]]

\* FloorPlanResult(meta = ..., walls = ...)
FloorPlanResult(meta, ws) == [meta |-> Metadata(meta), walls |-> ws]

\* result.model_dump(): the validated fields, nothing else
model_dump(r) == [meta |-> r.meta, walls |-> r.walls]

\* os.path.basename(image_path), and the same without its extension
FilePath(i)  == [dir |-> "images", stem |-> i, ext |-> ".png"]
Basename(p)  == <<p.stem, p.ext>>
Stem(p)      == p.stem

\* ------------------------------------------------------------------- main
\* Rasters read_image can return: (height, width) and the channel count.
SampleImages ==
  { [height |-> 2, width |-> 3, channels |-> 1],
    [height |-> 4, width |-> 4, channels |-> 4] }
NoImage == [height |-> 0, width |-> 0, channels |-> 0]

\* What the detection endpoint answers in the batch specification.
MainStatuses == {200, 304, 404}
MainBodies ==
  { NoBody,
    Body("object", FALSE, PredNull),
    Body("object", TRUE, PredNull),
    Body("object", TRUE, PredList(<< >>)),
    Body("object", TRUE, PredList(<<ValidWall, WeakWall, TallWall>>)),
    Body("object", TRUE, PredList(<<Unlabelled, NullLabelled, TallWall>>)),
    Body("object", TRUE, PredList(<<ValidWall, InfWall>>)),
    Body("array", TRUE, PredNull) }

NoRecord == [meta |-> << >>, walls |-> << >>]
NoCrash  == [file |-> 0, stage |-> "none"]

\* The state after main has built the client (main.py line 111); nfiles is
\* the length of the list get_image_files is about to return.
InitMain ==
  /\ nfiles \in 0..MaxFiles
  /\ cur = 0
  /\ pc = "scan"
  /\ started = {}
  /\ loadFailed = {}
  /\ inferFailed = {}
  /\ visFailed = {}
  /\ inferCalls = [i \in 1..nfiles |-> 0]
  /\ jsonTried = {}
  /\ jsonOut = << >>
  /\ pngOut = {}
  /\ crashedAt = NoCrash
  /\ image = NoImage
  /\ detection = NoBody
  /\ mwalls = << >>
  /\ result = NoRecord

locals == <<image, detection, mwalls, result>>
ledger == <<started, loadFailed, inferFailed, visFailed, inferCalls,
            jsonTried, jsonOut, pngOut>>

\* process_single_image returns: its locals are gone and the for loop moves
\* to the next file.
ReturnToLoop ==
  /\ pc' = "loop"
  /\ cur' = cur + 1
  /\ image' = NoImage
  /\ detection' = NoBody
  /\ mwalls' = << >>
  /\ result' = NoRecord
  /\ crashedAt' = crashedAt

\* An exception nothing catches leaves process_single_image, the for loop
\* and main.
Propagate(stage) ==
  /\ pc' = "crashed"
  /\ crashedAt' = [file |-> cur, stage |-> stage]
  /\ UNCHANGED <<cur, locals>>

\* image_files = get_image_files(...); if not image_files: return
GetImageFiles ==
  /\ pc = "scan"
  /\ IF nfiles = 0 THEN pc' = "end" /\ cur' = cur
                   ELSE pc' = "loop" /\ cur' = 1
  /\ UNCHANGED <<nfiles, ledger, crashedAt, locals>>

\* for image_path in image_files: process_single_image(image_path, client)
StartImage ==
  /\ pc = "loop"
  /\ cur <= nfiles
  /\ started' = started \cup {cur}
  /\ pc' = "read"
  /\ UNCHANGED <<nfiles, cur, loadFailed, inferFailed, visFailed, inferCalls,
                 jsonTried, jsonOut, pngOut, crashedAt, locals>>

\* the loop is exhausted; main logs its summary and returns
FinishBatch ==
  /\ pc = "loop"
  /\ cur > nfiles
  /\ pc' = "end"
  /\ UNCHANGED <<nfiles, cur, ledger, crashedAt, locals>>

\* image = read_image(image_path); if image is None: return
ReadImage ==
  /\ pc = "read"
  /\ \/ /\ loadFailed' = loadFailed \cup {cur}
        /\ ReturnToLoop
     \/ /\ image' \in SampleImages
        /\ pc' = "color"
        /\ UNCHANGED <<cur, loadFailed, crashedAt, detection, mwalls, result>>
  /\ UNCHANGED <<nfiles, started, inferFailed, visFailed, inferCalls,
                 jsonTried, jsonOut, pngOut>>

\* visualization_image = ensure_color_image(image);
\* height, width = get_image_dimensions(image).  cvtColor / copy can raise
\* (cv2.error, MemoryError); nothing catches it.
EnsureColor ==
  /\ pc = "color"
  /\ \/ /\ pc' = "infer"
        /\ UNCHANGED <<cur, crashedAt, locals>>
     \/ Propagate("color")
  /\ UNCHANGED <<nfiles, ledger>>

\* the handler logging without returning: processing goes on with an empty
\* detection result
InferFailure_FallThrough ==
  /\ inferFailed' = inferFailed \cup {cur}
  /\ detection' = Body("object", TRUE, PredList(<< >>))
  /\ pc' = "extract"
  /\ UNCHANGED <<cur, crashedAt, image, mwalls, result>>

\* except Exception as e: logger.error(...); return
InferFailure ==
  /\ inferFailed' = inferFailed \cup {cur}
  /\ ReturnToLoop

\* try: detection_result = client.infer_image(image_path), once per image
InferStep ==
  /\ pc = "infer"
  /\ inferCalls' = [inferCalls EXCEPT ![cur] = @ + 1]
  /\ \E fileOk \in BOOLEAN, netOk \in BOOLEAN,
        status \in MainStatuses, body \in MainBodies :
       LET r == infer_image(fileOk, netOk, status, body)
       IN  IF r.exc # "none"
             THEN InferFailure
             ELSE /\ detection' = r.body
                  /\ pc' = "extract"
                  /\ UNCHANGED <<cur, inferFailed, crashedAt, image, mwalls,
                                 result>>
  /\ UNCHANGED <<nfiles, started, loadFailed, visFailed, jsonTried, jsonOut,
                 pngOut>>

\* predictions = detection_result.get('predictions', [])
\* walls = extract_walls(predictions, settings.CONFIDENCE_THRESHOLD)
\* .get exists on a dict only; iterating null raises TypeError.
ExtractStep ==
  /\ pc = "extract"
  /\ IF detection.json # "object" THEN Propagate("extract")
     ELSE IF detection.predictions.t # "list" THEN Propagate("extract")
     ELSE LET r == extract_walls(detection.predictions.items,
                                 CONFIDENCE_THRESHOLD)
          IN  IF r.exc # "none" THEN Propagate("extract")
              ELSE /\ mwalls' = r.walls
                   /\ pc' = "visualize"
                   /\ UNCHANGED <<cur, crashedAt, image, detection, result>>
  /\ UNCHANGED <<nfiles, ledger>>

\* visualization_image = visualize_walls(visualization_image, walls), called
\* outside any try: image.copy() or cv2.line (a coordinate outside the C int
\* range) can raise.
VisualizeStep ==
  /\ pc = "visualize"
  /\ \/ /\ pc' = "build"
        /\ UNCHANGED <<cur, crashedAt, locals, visFailed>>
     \/ /\ visFailed' = visFailed \cup {cur}
        /\ Propagate("visualize")
  /\ UNCHANGED <<nfiles, started, loadFailed, inferFailed, inferCalls,
                 jsonTried, jsonOut, pngOut>>

\* result = FloorPlanResult(meta = {source, shape, model_id}, walls = walls)
BuildResult ==
  /\ pc = "build"
  /\ result' = FloorPlanResult(
                 [source   |-> Basename(FilePath(cur)),
                  shape    |-> <<image.height, image.width>>,
                  model_id |-> MODEL_ID],
                 mwalls)
  /\ pc' = "json"
  /\ UNCHANGED <<nfiles, cur, ledger, crashedAt, image, detection, mwalls>>

\* with open(output_path, 'w') ...: json.dump(result.model_dump(), ...)
\* except IOError: log
WriteJson ==
  /\ pc = "json"
  /\ jsonTried' = jsonTried \cup {cur}
  /\ \/ jsonOut' = (Stem(FilePath(cur)) :> model_dump(result)) @@ jsonOut
     \/ jsonOut' = jsonOut
  /\ pc' = "png"
  /\ UNCHANGED <<nfiles, cur, started, loadFailed, inferFailed, visFailed,
                 inferCalls, pngOut, crashedAt, locals>>

\* cv2.imwrite(debug_path, visualization_image) except Exception: log
WritePng ==
  /\ pc = "png"
  /\ \/ pngOut' = pngOut \cup {Stem(FilePath(cur))}
     \/ pngOut' = pngOut
  /\ ReturnToLoop
  /\ UNCHANGED <<nfiles, started, loadFailed, inferFailed, visFailed,
                 inferCalls, jsonTried, jsonOut>>

\* --------------------------------------------------------- specifications
NextBox == CallBbox /\ UNCHANGED <<extractVars, inferVars, mainVars>>

NextExtract ==
  \/ ExtractIterate /\ UNCHANGED <<boxVars, inferVars, mainVars>>
  \/ ExtractReturn /\ UNCHANGED <<boxVars, inferVars, mainVars>>

NextInfer == CallInfer /\ UNCHANGED <<boxVars, extractVars, mainVars>>

IdleMain ==
  /\ nfiles = 0 /\ cur = 0 /\ pc = "idle" /\ started = {} /\ loadFailed = {}
  /\ inferFailed = {} /\ visFailed = {} /\ inferCalls = << >>
  /\ jsonTried = {} /\ jsonOut = << >> /\ pngOut = {} /\ crashedAt = NoCrash
  /\ image = NoImage /\ detection = NoBody /\ mwalls = << >>
  /\ result = NoRecord

Next ==
  \/ GetImageFiles /\ UNCHANGED <<boxVars, extractVars, inferVars>>
  \/ StartImage /\ UNCHANGED <<boxVars, extractVars, inferVars>>
  \/ ReadImage /\ UNCHANGED <<boxVars, extractVars, inferVars>>
  \/ EnsureColor /\ UNCHANGED <<boxVars, extractVars, inferVars>>
  \/ InferStep /\ UNCHANGED <<boxVars, extractVars, inferVars>>
  \/ ExtractStep /\ UNCHANGED <<boxVars, extractVars, inferVars>>
  \/ VisualizeStep /\ UNCHANGED <<boxVars, extractVars, inferVars>>
  \/ BuildResult /\ UNCHANGED <<boxVars, extractVars, inferVars>>
  \/ WriteJson /\ UNCHANGED <<boxVars, extractVars, inferVars>>
  \/ WritePng /\ UNCHANGED <<boxVars, extractVars, inferVars>>
  \/ FinishBatch /\ UNCHANGED <<boxVars, extractVars, inferVars>>

\* the batch: main and process_single_image
Init == InitMain /\ IdleBox /\ IdleExtract /\ IdleInfer
Spec == Init /\ [][Next]_vars

\* bbox_to_wall_line on every box of the bounded sets
BoxInit == InitBox /\ IdleExtract /\ IdleInfer /\ IdleMain
SpecBox == BoxInit /\ [][NextBox]_vars

\* extract_walls on every predictions list of the bounded sets
ExtractInit == InitExtract /\ IdleBox /\ IdleInfer /\ IdleMain
SpecExtract == ExtractInit /\ [][NextExtract]_vars

\* infer_image on every response of the bounded sets
InferInit == InitInfer /\ IdleBox /\ IdleExtract /\ IdleMain
SpecInfer == InferInit /\ [][NextInfer]_vars

\* ================================================================= claims
Terminated == pc \in {"end", "crashed"}

\* ---- C1 (specification Spec).  No failure while processing one image
\* terminates the batch: nothing escapes process_single_image, and when the
\* run is over process_single_image has been started for every discovered
\* file.
C1_BatchAttemptsEveryFile ==
  /\ pc # "crashed"
  /\ (pc = "end" => started = 1..nfiles)

\* ---- C2 (specification SpecExtract).  For a list of well-formed
\* predictions, extract_walls returns, in input order, one wall per
\* prediction whose confidence is >= the threshold and whose lowercased
\* class contains "wall", each carrying that prediction's confidence, and
\* nothing else.
C2_WellFormed(p) ==
  /\ p.mapping
  /\ p.class.t = "text"
  /\ \A f \in {p.confidence, p.x, p.y, p.width, p.height} :
        f.t = "num" /\ f.f.k = "fin"

C2_NamesWall(p) ==
  \E i \in 1..Len(p.class.s) :
     /\ i + 3 <= Len(p.class.s)
     /\ p.class.s[i] \in {"w", "W"}
     /\ p.class.s[i + 1] \in {"a", "A"}
     /\ p.class.s[i + 2] \in {"l", "L"}
     /\ p.class.s[i + 3] \in {"l", "L"}

C2_Kept(p) == p.confidence.f.v >= thr.v /\ C2_NamesWall(p)

C2_KeptWallsInOrder ==
  (\A i \in 1..Len(preds) : C2_WellFormed(preds[i])) =>
     /\ epc # "raised"
     /\ epc = "returned" =>
          LET kept == SelectSeq(preds, C2_Kept)
          IN  /\ Len(walls) = Len(kept)
              /\ \A i \in 1..Len(kept) :
                    walls[i].confidence = kept[i].confidence.f

C2_Witness ==
  /\ epc = "returned"
  /\ thr = Fin(1)
  /\ preds = <<WeakWall, ValidWall, Door, TallWall>>
             \/ preds = <<ValidWall, Door, TallWall>>
  /\ Len(walls) = 2
  /\ walls[2].confidence = thr

\* ---- C3 (specification SpecExtract).  The walls built by extract_walls
\* carry the ids "w1", "w2", ..., "wK" in output order, without gaps or
\* duplicates, whatever was skipped; the counter advances only when a wall
\* is emitted.
C3_Names ==
  << <<"w","1">>, <<"w","2">>, <<"w","3">>, <<"w","4">>, <<"w","5">>,
     <<"w","6">>, <<"w","7">>, <<"w","8">>, <<"w","9">> >>

C3_SequentialIds ==
  /\ Len(walls) <= Len(C3_Names)
  /\ \A i \in 1..Len(walls) : walls[i].id = C3_Names[i]
  /\ wall_id = Len(walls) + 1

C3_Witness ==
  /\ epc = "returned"
  /\ Len(preds) >= 3
  /\ preds[1] = Door /\ preds[2] = ValidWall /\ preds[3] = TextConf
  /\ Len(walls) >= 1
  /\ walls[1].id = <<"w","1">>

\* ---- C4 (specification SpecExtract).  extract_walls never raises for a
\* malformed prediction: the call returns, the malformed entries are
\* skipped, and every valid wall prediction around them is emitted.
C4_MalformedSkipped ==
  /\ epc # "raised"
  /\ epc = "returned" =>
       LET valid(p) == C2_WellFormed(p) /\ C2_Kept(p)
           kept == SelectSeq(preds, valid)
       IN  /\ Len(walls) = Len(kept)
           /\ \A i \in 1..Len(kept) :
                 walls[i].confidence = kept[i].confidence.f

\* ---- C5 (specification SpecBox).  For a box of finite numbers,
\* bbox_to_wall_line truncates the corners toward zero and returns the
\* horizontal mid-line when width >= 2*height, else the vertical mid-line
\* when height >= 2*width, else the four corners; the mid coordinate is
\* the floor of the corners' mean and the result has at least 2 points.
C5_Range == (0 - 4 * (MaxCoord + MaxDim + 1)) .. (4 * (MaxCoord + MaxDim + 1))

\* the integer nearest to zero among those at most one quarter-unit count
\* short of n/4
C5_TowardZero(n) ==
  CHOOSE q \in C5_Range :
     IF n >= 0 THEN 4 * q <= n /\ n < 4 * (q + 1)
               ELSE 4 * q >= n /\ n > 4 * (q - 1)

C5_FloorHalf(n) == CHOOSE m \in C5_Range : 2 * m <= n /\ n < 2 * m + 2

C5_Expected(x, y, w, h) ==
  LET x1 == C5_TowardZero(x - w \div 2)
      y1 == C5_TowardZero(y - h \div 2)
      x2 == C5_TowardZero(x + w \div 2)
      y2 == C5_TowardZero(y + h \div 2)
  IN  IF w >= 2 * h
        THEN << <<x1, C5_FloorHalf(y1 + y2)>>, <<x2, C5_FloorHalf(y1 + y2)>> >>
      ELSE IF h >= 2 * w
        THEN << <<C5_FloorHalf(x1 + x2), y1>>, <<C5_FloorHalf(x1 + x2), y2>> >>
      ELSE << <<x1, y1>>, <<x2, y1>>, <<x2, y2>>, <<x1, y2>> >>

C5_BoxGeometry ==
  (bout # NoBox /\ \A a \in {bx, by, bw, bh} : a.k = "fin") =>
     /\ bout.exc = "none"
     /\ bout.points = C5_Expected(bx.v, by.v, bw.v, bh.v)
     /\ Len(bout.points) >= 2

\* both ratio tests hold (0 >= 0) and the corners are negative fractions
C5_Witness ==
  /\ bx = Fin(0 - 2) /\ by = Fin(0 - 2) /\ bw = Fin(0) /\ bh = Fin(0)
  /\ bout.exc = "none"
  /\ bout.points = << <<0, 0>>, <<0, 0>> >>

\* ---- C6 (specification Spec).  The record serialized to <stem>.json has
\* a meta object holding the source filename, the [height, width] shape and
\* the configured model identifier.
C6_MetaHasSourceShapeModel ==
  \A f \in DOMAIN jsonOut :
     /\ {"source", "shape", "model_id"} \subseteq DOMAIN jsonOut[f].meta
     /\ jsonOut[f].meta.model_id = MODEL_ID

\* ---- C7 (specification Spec).  An image whose load or inference fails
\* gets neither a JSON result nor a debug PNG, process_single_image returns
\* normally so that the loop goes on to the next image, and the endpoint is
\* called at most once for it (never after a failed load).
C7_FailedImageSkippedOnce ==
  \A i \in 1..nfiles :
     /\ inferCalls[i] <= 1
     /\ i \in (loadFailed \cup inferFailed) =>
          /\ Stem(FilePath(i)) \notin DOMAIN jsonOut
          /\ Stem(FilePath(i)) \notin pngOut
          /\ i \notin jsonTried
          /\ crashedAt.file # i
          /\ cur > i
          /\ (i \in loadFailed => inferCalls[i] = 0)
          /\ (i \in inferFailed => inferCalls[i] = 1)
          /\ (Terminated /\ i < nfiles => (i + 1) \in started)

C7_Witness ==
  /\ pc = "end"
  /\ nfiles >= 2
  /\ 1 \in inferFailed
  /\ 2 \in loadFailed
  /\ jsonOut = << >>

\* ---- C8 (specification Spec).  Rendering is best-effort: when
\* visualize_walls fails for an image whose load, inference and extraction
\* succeeded, the JSON result of that image is still written.
C8_RenderFailureKeepsJson ==
  Terminated => \A i \in visFailed : i \in jsonTried

\* ---- C9 (specification SpecInfer).  For a response whose status is not
\* 2xx, infer_image raises and returns nothing, whatever the body holds.
C9_NonSuccessStatusRaises ==
  (iout # NoResult /\ ifile /\ inet /\ ~(200 <= istatus /\ istatus < 300)) =>
     iout.exc # "none"

\* ---- C10 (specification SpecExtract).  Original statement: a confidence
\* that is absent or cannot be converted to a float is handled as 0.0 for
\* every threshold: replacing it by 0.0 leaves the outcome of extract_walls
\* unchanged.
C10_Zeroed(ps, kinds) ==
  [i \in 1..Len(ps) |->
     IF ps[i].mapping /\ ps[i].confidence.t \in kinds
       THEN [ps[i] EXCEPT !.confidence = Num(Fin(0))]
       ELSE ps[i]]

C10_SameOutcome(kinds) ==
  LET other == extract_walls(C10_Zeroed(preds, kinds), thr)
  IN  /\ epc = "returned" => other = [exc |-> "none", walls |-> walls]
      /\ epc = "raised" => other.exc # "none"

C10_BadConfidenceIsZero == C10_SameOutcome({"absent", "null", "text"})

\* ---- C10 as amended.  An absent confidence is handled as 0.0 for every
\* threshold; a confidence that is present but cannot be converted makes
\* the prediction skipped, which is what 0.0 does for thresholds > 0 only.
C10_AbsentIsZero_BadIsSkipped ==
  /\ C10_SameOutcome({"absent"})
  /\ FLt(Fin(0), thr) => C10_SameOutcome({"absent", "null", "text"})
  /\ \A i \in 1..Len(preds) :
        (preds[i].mapping /\ preds[i].confidence.t \in {"null", "text"}) =>
           ProcessPrediction(preds[i], thr).act = "warn"

C10_Witness ==
  /\ epc = "returned"
  /\ thr = Fin(1)
  /\ Len(preds) = 3
  /\ preds[1] = TextConf /\ preds[2] = ValidWall /\ preds[3] = BareWall
  /\ Len(walls) = 1

====
